---- MODULE Spec2Model ----
(***************************************************************************)
(* cxx_mangle (src/src/lib.rs): Itanium C++ ABI mangling of a function     *)
(* name and its parameter types.  A string is a sequence of characters, a  *)
(* character is a one-element TLA+ string, except NonAscii, which stands   *)
(* for one character whose UTF-8 encoding is two bytes long.               *)
(***************************************************************************)
EXTENDS Integers, Sequences, FiniteSets, TLC

VARIABLES funcs, args, rets

vars == <<funcs, args, rets>>

(* ---------------------------------------------------------------------- *)
(* Bounds of the client that drives the library                            *)
(* ---------------------------------------------------------------------- *)
MaxNameTokens == 3
MaxParams == 2
MaxCalls == 2
PairNameLen == 2
PairParams == 1
PairCalls == 2

(* ---------------------------------------------------------------------- *)
(* Characters                                                              *)
(* ---------------------------------------------------------------------- *)
Digits == {"0", "1", "2", "3", "4", "5", "6", "7", "8", "9"}

Upper == {"A", "B", "C", "D", "E", "F", "G", "H", "I", "J", "K", "L", "M",
          "N", "O", "P", "Q", "R", "S", "T", "U", "V", "W", "X", "Y", "Z"}

Lower == {"a", "b", "c", "d", "e", "f", "g", "h", "i", "j", "k", "l", "m",
          "n", "o", "p", "q", "r", "s", "t", "u", "v", "w", "x", "y", "z"}

NonAscii == "U+00E9"

(* ---------------------------------------------------------------------- *)
(* enum Type                                                               *)
(* ---------------------------------------------------------------------- *)
Type == {"Char", "SChar", "Double", "Float", "Float128", "UChar", "Int",
         "UInt", "Long", "ULong", "Int128", "UInt128", "Short", "UShort",
         "Void", "WChar", "LLong", "ULLong", "Ellipsis"}

(* a slip in the table: the arm of Char repeats the letter of SChar *)
TypeLetterDup(t) ==
    CASE t \in {"SChar", "Char"} -> "a"
      [] t = "Double" -> "d"
      [] t = "Float" -> "f"
      [] t = "Float128" -> "g"
      [] t = "UChar" -> "h"
      [] t = "Int" -> "i"
      [] t = "UInt" -> "j"
      [] t = "Long" -> "l"
      [] t = "ULong" -> "m"
      [] t = "Int128" -> "n"
      [] t = "UInt128" -> "o"
      [] t = "Short" -> "s"
      [] t = "UShort" -> "t"
      [] t = "Void" -> "v"
      [] t = "WChar" -> "w"
      [] t = "LLong" -> "x"
      [] t = "ULLong" -> "y"
      [] t = "Ellipsis" -> "z"

(* the match of Scope::mangle, arms in source order *)
TypeLetter(t) ==
    CASE t = "SChar" -> "a"
      [] t = "Double" -> "d"
      [] t = "Float" -> "f"
      [] t = "Float128" -> "g"
      [] t = "UChar" -> "h"
      [] t = "Int" -> "i"
      [] t = "UInt" -> "j"
      [] t = "Long" -> "l"
      [] t = "ULong" -> "m"
      [] t = "Int128" -> "n"
      [] t = "UInt128" -> "o"
      [] t = "Short" -> "s"
      [] t = "UShort" -> "t"
      [] t = "Void" -> "v"
      [] t = "WChar" -> "w"
      [] t = "LLong" -> "x"
      [] t = "ULLong" -> "y"
      [] t = "Ellipsis" -> "z"
      [] t = "Char" -> "c"

(* ---------------------------------------------------------------------- *)
(* Strings                                                                 *)
(* ---------------------------------------------------------------------- *)
(* bytes of one character in UTF-8 *)
Utf8Len(c) == IF c = NonAscii THEN 2 ELSE 1

RECURSIVE StrLen(_)
(* String::len: the length in bytes *)
StrLen(s) == IF s = <<>> THEN 0 ELSE Utf8Len(Head(s)) + StrLen(Tail(s))

DigitChar(d) ==
    CASE d = 0 -> "0" [] d = 1 -> "1" [] d = 2 -> "2" [] d = 3 -> "3"
      [] d = 4 -> "4" [] d = 5 -> "5" [] d = 6 -> "6" [] d = 7 -> "7"
      [] d = 8 -> "8" [] d = 9 -> "9"

RECURSIVE ToDecimalNoZero(_)
(* a digit loop that runs while n > 0 and so prints nothing for 0 *)
ToDecimalNoZero(n) ==
    IF n = 0 THEN <<>>
    ELSE Append(ToDecimalNoZero(n \div 10), DigitChar(n % 10))

RECURSIVE ToDecimal(_)
(* write!(l, "{}", n) for an unsigned n *)
ToDecimal(n) ==
    IF n < 10 THEN <<DigitChar(n)>>
    ELSE Append(ToDecimal(n \div 10), DigitChar(n % 10))

(* a match of "::" starts at position i of n *)
MatchAt(n, i) == i + 1 <= Len(n) /\ n[i] = ":" /\ n[i + 1] = ":"

(* a search for a single ':' *)
ContainsColon(n) == \E i \in 1..Len(n) : n[i] = ":"

(* n.contains("::") *)
Contains(n) == \E i \in 1..Len(n) : MatchAt(n, i)

RECURSIVE SplitFromKeepColon(_, _, _)
(* a piece that ends one position late and keeps the first ':' *)
SplitFromKeepColon(n, start, i) ==
    IF i > Len(n) THEN <<SubSeq(n, start, Len(n))>>
    ELSE IF MatchAt(n, i)
         THEN <<SubSeq(n, start, i)>> \o SplitFromKeepColon(n, i + 2, i + 2)
         ELSE SplitFromKeepColon(n, start, i + 1)

RECURSIVE SplitFromSkipEmpty(_, _, _)
(* a split that drops the empty pieces *)
SplitFromSkipEmpty(n, start, i) ==
    IF i > Len(n)
    THEN IF start > Len(n) THEN <<>> ELSE <<SubSeq(n, start, Len(n))>>
    ELSE IF MatchAt(n, i)
         THEN (IF start = i THEN <<>> ELSE <<SubSeq(n, start, i - 1)>>)
                  \o SplitFromSkipEmpty(n, i + 2, i + 2)
         ELSE SplitFromSkipEmpty(n, start, i + 1)

RECURSIVE SplitFrom(_, _, _)
(* n.split("::"): the scan is at position i, the current piece began at   *)
(* position start; matches are taken left to right and do not overlap.     *)
SplitFrom(n, start, i) ==
    IF i > Len(n) THEN <<SubSeq(n, start, Len(n))>>
    ELSE IF MatchAt(n, i)
         THEN <<SubSeq(n, start, i - 1)>> \o SplitFrom(n, i + 2, i + 2)
         ELSE SplitFrom(n, start, i + 1)

Split(n) == SplitFrom(n, 1, 1)

(* ---------------------------------------------------------------------- *)
(* enum Scope                                                              *)
(* ---------------------------------------------------------------------- *)
Unscoped(st) == [tag |-> "Unscoped", st |-> st]

Nested(b) == [tag |-> "Nested", b |-> b]

(* Scope::new *)
ScopeNew(n) == IF Contains(n) THEN Nested(Split(n)) ELSE Unscoped(n)

RECURSIVE MangleSegmentsRev(_)
(* a loop that walks the segments innermost first *)
MangleSegmentsRev(b) ==
    IF b = <<>> THEN <<>>
    ELSE MangleSegmentsRev(Tail(b)) \o ToDecimal(StrLen(Head(b))) \o Head(b)

RECURSIVE MangleSegmentsSkipEmpty(_)
(* a loop that emits nothing for an empty segment *)
MangleSegmentsSkipEmpty(b) ==
    IF b = <<>> THEN <<>>
    ELSE (IF Head(b) = <<>> THEN <<>>
          ELSE ToDecimal(StrLen(Head(b))) \o Head(b))
             \o MangleSegmentsSkipEmpty(Tail(b))

RECURSIVE MangleSegments(_)
(* the loop over the segments of a Nested scope *)
MangleSegments(b) ==
    IF b = <<>> THEN <<>>
    ELSE ToDecimal(StrLen(Head(b))) \o Head(b) \o MangleSegments(Tail(b))

RECURSIVE MangleParamsDedup(_)
(* a loop that emits one letter for a run of equal types *)
MangleParamsDedup(t) ==
    IF t = <<>> THEN <<>>
    ELSE IF Len(t) > 1 /\ t[1] = t[2] THEN MangleParamsDedup(Tail(t))
         ELSE <<TypeLetter(Head(t))>> \o MangleParamsDedup(Tail(t))

RECURSIVE MangleParams(_)
(* the loop over the parameter types *)
MangleParams(t) ==
    IF t = <<>> THEN <<>>
    ELSE <<TypeLetter(Head(t))>> \o MangleParams(Tail(t))

(* the Unscoped arm with its two push_str calls swapped *)
ManglePrefixNameFirst(scope) ==
    <<"_", "Z">> \o
    (IF scope.tag = "Unscoped"
     THEN scope.st \o ToDecimal(StrLen(scope.st))
     ELSE <<"N">> \o MangleSegments(scope.b) \o <<"E">>)

(* the prefix Scope::mangle builds before the parameter letters *)
ManglePrefix(scope) ==
    <<"_", "Z">> \o
    (IF scope.tag = "Unscoped"
     THEN ToDecimal(StrLen(scope.st)) \o scope.st
     ELSE <<"N">> \o MangleSegments(scope.b) \o <<"E">>)

(* Scope::mangle *)
ScopeMangle(scope, t) == ManglePrefix(scope) \o MangleParams(t)

(* ---------------------------------------------------------------------- *)
(* Inputs of the client                                                    *)
(* ---------------------------------------------------------------------- *)
RECURSIVE Concats(_, _)
Concats(tokens, k) ==
    IF k = 0 THEN {<<>>}
    ELSE LET shorter == Concats(tokens, k - 1)
         IN  shorter \cup {s \o t : s \in shorter, t \in tokens}

RECURSIVE ListsOver(_, _)
ListsOver(S, k) ==
    IF k = 0 THEN {<<>>}
    ELSE LET shorter == ListsOver(S, k - 1)
         IN  shorter \cup {Append(s, x) : s \in shorter, x \in S}

myNamespace == <<"m", "y", "N", "a", "m", "e", "s", "p", "a", "c", "e">>

func == <<"f", "u", "n", "c">>

Sep == <<":", ":">>

(* the names of the crate's tests *)
TestNames == {func,
              myNamespace \o Sep \o <<"i", "n", "n", "e", "r">> \o Sep \o func,
              <<"h", "e", "l", "l", "o">> \o Sep \o <<"w", "o", "r", "l", "d">>}

NameTokens == {<<"a">>, <<":">>, Sep, <<NonAscii>>, myNamespace}

Names == Concats(NameTokens, MaxNameTokens) \cup TestNames

SomeTypes == {"Char", "Int"}

ParamLists ==
    ListsOver(SomeTypes, MaxParams) \cup {<<t>> : t \in Type}
        \cup {<<"Int", "Double", "Ellipsis">>}

PairTokens == {<<"i">>, <<"1">>, Sep}

NineI == <<"i", "i", "i", "i", "i", "i", "i", "i", "i">>

(* two names with a component that begins with a digit; their mangled     *)
(* forms coincide: _ZN10 9iiiiiiiii 0E and _ZN1 0 9 iiiiiiiii 0E          *)
DigitNames == {<<"9">> \o NineI \o Sep, <<"0">> \o Sep \o NineI \o Sep}

PairNames == Concats(PairTokens, PairNameLen) \cup DigitNames

PairLists == ListsOver({"Int"}, PairParams) \cup {<<"Void">>}

(* ---------------------------------------------------------------------- *)
(* struct Func and its client                                              *)
(* ---------------------------------------------------------------------- *)
Handles == {1, 2}

Init ==
    /\ funcs = <<>>
    /\ args = <<>>
    /\ rets = <<>>

(* let f = Func::new(name, params), bound to handle h *)
FuncNew(h, name, params) ==
    /\ h \notin DOMAIN funcs
    /\ funcs' = (h :> [scope |-> ScopeNew(name), params |-> params]) @@ funcs
    /\ args' = (h :> [name |-> name, params |-> params]) @@ args
    /\ rets' = (h :> <<>>) @@ rets

(* a mangle() that consumes the parameter list it encodes *)
FuncMangleDrain(h, calls) ==
    /\ h \in DOMAIN funcs
    /\ Len(rets[h]) < calls
    /\ rets' = [rets EXCEPT ![h] =
                   Append(@, ScopeMangle(funcs[h].scope, funcs[h].params))]
    /\ funcs' = [funcs EXCEPT ![h].params = <<>>]
    /\ UNCHANGED args

(* f.mangle() on the descriptor of handle h; the client keeps the result *)
FuncMangle(h, calls) ==
    /\ h \in DOMAIN funcs
    /\ Len(rets[h]) < calls
    /\ rets' = [rets EXCEPT ![h] =
                   Append(@, ScopeMangle(funcs[h].scope, funcs[h].params))]
    /\ UNCHANGED <<funcs, args>>

Next ==
    \/ \E h \in {1} \ DOMAIN funcs :
           \E name \in Names, params \in ParamLists : FuncNew(h, name, params)
    \/ \E h \in {1} : FuncMangle(h, MaxCalls)

Spec == Init /\ [][Next]_vars

NextPair ==
    \/ \E h \in Handles \ DOMAIN funcs :
           \E name \in PairNames, params \in PairLists :
               FuncNew(h, name, params)
    \/ \E h \in Handles : FuncMangle(h, PairCalls)

SpecPair == Init /\ [][NextPair]_vars

(* ---------------------------------------------------------------------- *)
(* Vocabulary of the properties, written without the operators above       *)
(* ---------------------------------------------------------------------- *)
Returned == UNION {{<<h, k>> : k \in 1..Len(rets[h])} : h \in DOMAIN rets}

NameOf(h) == args[h].name

ParamsOf(h) == args[h].params

HasSep(n) == \E i \in 1..(Len(n) - 1) : SubSeq(n, i, i + 1) = <<":", ":">>

Bytes(s) == Len(s) + Cardinality({i \in 1..Len(s) : s[i] = NonAscii})

DigitValue(c) ==
    CASE c = "0" -> 0 [] c = "1" -> 1 [] c = "2" -> 2 [] c = "3" -> 3
      [] c = "4" -> 4 [] c = "5" -> 5 [] c = "6" -> 6 [] c = "7" -> 7
      [] c = "8" -> 8 [] c = "9" -> 9

RECURSIVE DecValue(_)
DecValue(d) ==
    IF d = <<>> THEN 0
    ELSE 10 * DecValue(SubSeq(d, 1, Len(d) - 1)) + DigitValue(d[Len(d)])

(* d is the decimal numeral of n: digits only, at least one, no leading 0 *)
IsDecimal(d, n) ==
    /\ Len(d) >= 1
    /\ \A i \in 1..Len(d) : d[i] \in Digits
    /\ Len(d) > 1 => d[1] # "0"
    /\ DecValue(d) = n

(* first position of the run of ':' that position i of n lies in *)
RunStart(n, i) ==
    CHOOSE j \in 1..i : /\ \A k \in j..i : n[k] = ":"
                        /\ j = 1 \/ n[j - 1] # ":"

(* start positions of the non-overlapping matches of "::", left to right *)
SepStarts(n) ==
    {i \in 1..(Len(n) - 1) :
        /\ n[i] = ":"
        /\ n[i + 1] = ":"
        /\ (i - RunStart(n, i)) % 2 = 0}

(* the "::"-delimited components of n, in order *)
Pieces(n) ==
    LET m == SepStarts(n)
        c == Cardinality(m)
        nth(j) == CHOOSE x \in m : Cardinality({y \in m : y <= x}) = j
    IN  [j \in 1..(c + 1) |->
            SubSeq(n, IF j = 1 THEN 1 ELSE nth(j - 1) + 2,
                      IF j = c + 1 THEN Len(n) ELSE nth(j) - 1)]

RECURSIVE SegsAt(_, _, _, _, _)
(* from position pos on, o holds the length-prefixed components i.. of     *)
(* comps and then exactly the text rest                                    *)
SegsAt(o, pos, comps, i, rest) ==
    IF i > Len(comps) THEN SubSeq(o, pos, Len(o)) = rest
    ELSE \E w \in 1..3 :
            /\ pos + w - 1 <= Len(o)
            /\ IsDecimal(SubSeq(o, pos, pos + w - 1), Bytes(comps[i]))
            /\ SubSeq(o, pos + w, pos + w + Len(comps[i]) - 1) = comps[i]
            /\ pos + w + Len(comps[i]) - 1 <= Len(o)
            /\ SegsAt(o, pos + w + Len(comps[i]), comps, i + 1, rest)

Letters(ps) == [k \in 1..Len(ps) |-> TypeLetter(ps[k])]

(* o is the mangled form of name n followed by the text rest *)
UnscopedShape(o, n, rest) ==
    /\ Len(o) >= 2
    /\ SubSeq(o, 1, 2) = <<"_", "Z">>
    /\ SegsAt(o, 3, <<n>>, 1, rest)

NestedShape(o, n, rest) ==
    /\ Len(o) >= 3
    /\ SubSeq(o, 1, 3) = <<"_", "Z", "N">>
    /\ SegsAt(o, 4, Pieces(n), 1, <<"E">> \o rest)

NameShape(o, n, rest) ==
    IF HasSep(n) THEN NestedShape(o, n, rest) ELSE UnscopedShape(o, n, rest)

OutputChars == {"_", "Z", "N", "E"} \cup Digits \cup Upper \cup Lower

PlainName(n) ==
    LET p == Pieces(n)
    IN  \A j \in 1..Len(p) : \A i \in 1..Len(p[j]) : p[j][i] \in OutputChars

NoDigitStart(n) ==
    LET p == Pieces(n)
    IN  \A j \in 1..Len(p) : p[j] = <<>> \/ p[j][1] \notin Digits

(* ---------------------------------------------------------------------- *)
(* Properties                                                              *)
(* ---------------------------------------------------------------------- *)

(* C1: for a name without "::", every result of mangle() is "_Z", the      *)
(* decimal length of the name (in bytes, as String::len counts), the name  *)
(* verbatim, and the letters of the parameters; with [Void] it ends in     *)
(* "v", with [] nothing follows the name; ("func",[Void]) gives _Z4funcv   *)
(* and ("func",[Int]) gives _Z4funci.                                      *)
C1_UnscopedMangle ==
    \A r \in Returned :
        LET h == r[1]
            o == rets[h][r[2]]
            n == NameOf(h)
            ps == ParamsOf(h)
        IN  ~HasSep(n) =>
              /\ UnscopedShape(o, n, Letters(ps))
              /\ ps = <<"Void">> => UnscopedShape(o, n, <<"v">>)
              /\ ps = <<>> => UnscopedShape(o, n, <<>>)
              /\ (n = func /\ ps = <<"Void">>) =>
                     o = <<"_", "Z", "4", "f", "u", "n", "c", "v">>
              /\ (n = func /\ ps = <<"Int">>) =>
                     o = <<"_", "Z", "4", "f", "u", "n", "c", "i">>

C1_Witness ==
    \E r \in Returned :
        /\ NameOf(r[1]) = myNamespace \o <<"a">>
        /\ ParamsOf(r[1]) = <<"Void">>

(* C2: for a name with "::", every result of mangle() is "_ZN", then each  *)
(* "::"-delimited component in order as decimal length and text, then "E", *)
(* then the letters of the parameters.                                     *)
C2_NestedMangle ==
    \A r \in Returned :
        LET h == r[1]
            o == rets[h][r[2]]
            n == NameOf(h)
            ps == ParamsOf(h)
        IN  HasSep(n) =>
              /\ NestedShape(o, n, Letters(ps))
              /\ (n = myNamespace \o Sep \o <<"i", "n", "n", "e", "r">>
                          \o Sep \o func
                  /\ ps = <<"Int", "Double", "Ellipsis">>) =>
                     o = <<"_", "Z", "N", "1", "1">> \o myNamespace
                           \o <<"5", "i", "n", "n", "e", "r", "4">> \o func
                           \o <<"E", "i", "d", "z">>

C2_Witness ==
    \E r \in Returned :
        /\ NameOf(r[1]) = myNamespace \o Sep \o <<"a">>
        /\ ParamsOf(r[1]) = <<"Int", "Int">>

(* C3: the letter mapping is defined on all 19 variants of Type, gives one *)
(* ASCII letter each, and no two variants share a letter; mangle() emits   *)
(* that letter for a one-parameter list.                                   *)
C3_LetterInjective ==
    /\ Cardinality(Type) = 19
    /\ \A t \in Type : TypeLetter(t) \in Upper \cup Lower
    /\ Cardinality({TypeLetter(t) : t \in Type}) = Cardinality(Type)
    /\ \A r \in Returned :
          LET o == rets[r[1]][r[2]]
              ps == ParamsOf(r[1])
          IN  Len(ps) = 1 =>
                \A t \in Type : (o[Len(o)] = TypeLetter(t)) <=> (t = ps[1])

C3_Witness ==
    \E r \in Returned : ParamsOf(r[1]) = <<"Char">> /\ NameOf(r[1]) = func

(* C4: after the name prefix the result has exactly len(ps) characters,    *)
(* the k-th being the letter of ps[k]; nothing is reordered, dropped or    *)
(* merged, and an empty list emits no letter.                              *)
C4_ParamLetters ==
    \A r \in Returned :
        LET h == r[1]
            o == rets[h][r[2]]
            ps == ParamsOf(h)
            p == Len(o) - Len(ps)
        IN  /\ p >= 0
            /\ NameShape(SubSeq(o, 1, p), NameOf(h), <<>>)
            /\ \A k \in 1..Len(ps) : o[p + k] = TypeLetter(ps[k])

C4_Witness ==
    \E r \in Returned :
        /\ ParamsOf(r[1]) = <<"Int", "Int">>
        /\ NameOf(r[1]) = <<"a">>

(* C5: every mangle() call on a descriptor returns what the first call     *)
(* returned, the descriptor still holds the scope and parameters that      *)
(* Func::new stored, and descriptors built from equal arguments return     *)
(* equal strings.                                                          *)
C5_Deterministic ==
    /\ \A r \in Returned : rets[r[1]][r[2]] = rets[r[1]][1]
    /\ \A h \in DOMAIN funcs :
          /\ funcs[h].params = ParamsOf(h)
          /\ funcs[h].scope =
                 IF HasSep(NameOf(h)) THEN Nested(Pieces(NameOf(h)))
                 ELSE Unscoped(NameOf(h))
    /\ \A r1, r2 \in Returned :
          args[r1[1]] = args[r2[1]] => rets[r1[1]][r1[2]] = rets[r2[1]][r2[2]]

C5_Witness ==
    /\ DOMAIN rets = Handles
    /\ args[1] = args[2]
    /\ Len(rets[1]) = 2
    /\ Len(rets[2]) = 2
    /\ ParamsOf(1) # <<>>

(* C6 as stated: every character of every result is one of _ Z N E, a      *)
(* digit or an ASCII letter, whatever the name.                            *)
C6_AnyNameOutputChars ==
    \A r \in Returned :
        \A i \in 1..Len(rets[r[1]][r[2]]) :
            rets[r[1]][r[2]][i] \in OutputChars

(* C6 amended: that holds when every "::"-delimited component of the name  *)
(* consists of such characters only; the name is copied verbatim.          *)
C6_PlainNameOutputChars ==
    \A r \in Returned :
        PlainName(NameOf(r[1])) =>
            \A i \in 1..Len(rets[r[1]][r[2]]) :
                rets[r[1]][r[2]][i] \in OutputChars

C6_Witness ==
    \E r \in Returned :
        /\ NameOf(r[1]) = <<"a">> \o Sep \o <<"a">>
        /\ ParamsOf(r[1]) = <<"Void">>

(* C7: Scope::new gives Unscoped(name) exactly when the name has no "::";  *)
(* otherwise Nested with at least two segments, the pieces of the left to  *)
(* right split in order, one more than the non-overlapping matches.        *)
C7_ScopeNew ==
    \A h \in DOMAIN funcs :
        LET n == NameOf(h)
            sc == funcs[h].scope
        IN  /\ ~HasSep(n) => sc = Unscoped(n)
            /\ HasSep(n) =>
                  /\ sc.tag = "Nested"
                  /\ Len(sc.b) >= 2
                  /\ Len(sc.b) = Cardinality(SepStarts(n)) + 1
                  /\ sc.b = Pieces(n)

C7_Witness ==
    \E h \in DOMAIN funcs : NameOf(h) = <<"a", ":", ":", ":">>

(* C8 as stated: every segment of a Nested scope is non-empty.             *)
C8_SegmentsNonEmpty ==
    \A h \in DOMAIN funcs :
        funcs[h].scope.tag = "Nested" =>
            \A i \in 1..Len(funcs[h].scope.b) : funcs[h].scope.b[i] # <<>>

(* C8 amended: the segments are all non-empty exactly when no match of     *)
(* "::" is at the start of the name, at its end, or right after another    *)
(* match; otherwise the empty pieces are kept as empty segments.           *)
C8_SegmentsNonEmptyIff ==
    \A h \in DOMAIN funcs :
        LET n == NameOf(h)
            sc == funcs[h].scope
            m == SepStarts(n)
        IN  sc.tag = "Nested" =>
              ((\A i \in 1..Len(sc.b) : sc.b[i] # <<>>)
                 <=> /\ 1 \notin m
                     /\ (Len(n) - 1) \notin m
                     /\ \A x \in m : (x + 2) \notin m)

C8_Witness ==
    \E h \in DOMAIN funcs : NameOf(h) = <<"a", ":", ":", "a">>

(* C9: Func::new accepts every name and parameter list, mangle() returns   *)
(* a string for every descriptor, and malformed names are encoded as they  *)
(* are: the empty name without parameters gives _Z0.                       *)
C9_Total ==
    /\ 1 \notin DOMAIN funcs =>
          \A n \in Names : \A ps \in ParamLists : ENABLED FuncNew(1, n, ps)
    /\ \A h \in DOMAIN funcs :
          /\ funcs[h].scope.tag \in {"Unscoped", "Nested"}
          /\ Len(rets[h]) < MaxCalls => ENABLED FuncMangle(h, MaxCalls)
    /\ \A r \in Returned :
          LET o == rets[r[1]][r[2]]
          IN  /\ NameShape(o, NameOf(r[1]), Letters(ParamsOf(r[1])))
              /\ (NameOf(r[1]) = <<>> /\ ParamsOf(r[1]) = <<>>) =>
                     o = <<"_", "Z", "0">>
              /\ (NameOf(r[1]) = Sep /\ ParamsOf(r[1]) = <<>>) =>
                     o = <<"_", "Z", "N", "0", "0", "E">>

C9_Witness ==
    \E r \in Returned : NameOf(r[1]) = <<>> /\ ParamsOf(r[1]) = <<>>

(* C10: when no "::"-delimited component of either name begins with a      *)
(* digit, equal results of mangle() come from equal names and equal        *)
(* parameter lists.                                                        *)
C10_Injective ==
    \A r1, r2 \in Returned :
        (/\ rets[r1[1]][r1[2]] = rets[r2[1]][r2[2]]
         /\ args[r1[1]] # args[r2[1]])
        => ~(NoDigitStart(NameOf(r1[1])) /\ NoDigitStart(NameOf(r2[1])))

C10_Witness ==
    /\ DOMAIN rets = Handles
    /\ rets[1] # <<>>
    /\ rets[2] # <<>>
    /\ NameOf(1) = <<":", ":", "i">>
    /\ NameOf(2) = <<"i", ":", ":">>
    /\ ParamsOf(1) = <<>>
    /\ ParamsOf(2) = <<>>

====
